---- MODULE Spec2Model ----
(***************************************************************************)
(* Model of build.py: the Android NDK locator (find_ndk), the command      *)
(* runner (run_cmd) and the staged build pipeline with artifact            *)
(* collection (main).                                                      *)
(*                                                                         *)
(* A path is the sequence of its components.  A string that holds a path   *)
(* (the value of an environment variable) is the sequence of the pieces    *)
(* between its separators, so a trailing or doubled separator shows as an  *)
(* empty piece and "." as a piece of its own; the empty string is <<>>.    *)
(* File names that the code inspects character by character are sequences  *)
(* of one-character strings.                                               *)
(*                                                                         *)
(* Filesystem calls of the script itself (mkdir, rmtree, copy, copytree)   *)
(* are taken to succeed, the entries of the output directories are plain   *)
(* files; external commands may exit with any status.                      *)
(***************************************************************************)
EXTENDS Integers, Sequences, FiniteSets, TLC

VARIABLES
    env,                    \* os.environ: variable name -> string (unset names are not in the domain)
    system,                 \* platform.system()
    argv_help,              \* "--help" or "-h" is in sys.argv
    sdk_fs,                 \* the part of the filesystem under the SDK roots
    ndk_fs,                 \* the paths that exist besides the SDK roots
    toolchain_file_exists,  \* <ndk>/build/cmake/android.toolchain.cmake exists
    pc,                     \* position in __main__ / main
    ndk_path,               \* main's ndk_path
    invoked,                \* the commands handed to run_cmd so far, each with its exit status
    exit_code,              \* the process's exit code, Running until it ends
    build_base_exists,      \* BUILD_BASE exists
    slang_dir_exists,       \* BUILD_BASE/slang exists
    host_build_dir_exists,  \* BUILD_BASE/build-host exists
    android_build_dir_exists, \* BUILD_BASE/build-android exists
    out,                    \* search path -> whether it exists, and its entries
    dist_exists,            \* DIST_DIR exists
    dist,                   \* DIST_DIR's files: name -> where the content came from
    dist_include,           \* DIST_DIR/include exists
    found,                  \* main's found
    message                 \* the last message main printed about the run's outcome

vars == <<env, system, argv_help, sdk_fs, ndk_fs, toolchain_file_exists, pc,
          ndk_path, invoked, exit_code, build_base_exists, slang_dir_exists,
          host_build_dir_exists, android_build_dir_exists, out, dist_exists,
          dist, dist_include, found, message>>

\* ---------------------------------------------------------------- strings

\* Spelling of the names whose characters the code looks at.
Spell ==
    [n \in {"9", "10", "25", "25.1", "lib", ".so", ".a", "libfoo.so", "other.txt",
            "libbar.a", "foo.so", "libfoo.txt", "glib.a", "libslang.so"} |->
        CASE n = "9" -> <<"9">>
          [] n = "10" -> <<"1", "0">>
          [] n = "25" -> <<"2", "5">>
          [] n = "25.1" -> <<"2", "5", ".", "1">>
          [] n = "lib" -> <<"l", "i", "b">>
          [] n = ".so" -> <<".", "s", "o">>
          [] n = ".a" -> <<".", "a">>
          [] n = "libfoo.so" -> <<"l", "i", "b", "f", "o", "o", ".", "s", "o">>
          [] n = "other.txt" -> <<"o", "t", "h", "e", "r", ".", "t", "x", "t">>
          [] n = "libbar.a" -> <<"l", "i", "b", "b", "a", "r", ".", "a">>
          [] n = "foo.so" -> <<"f", "o", "o", ".", "s", "o">>
          [] n = "libfoo.txt" -> <<"l", "i", "b", "f", "o", "o", ".", "t", "x", "t">>
          [] n = "glib.a" -> <<"g", "l", "i", "b", ".", "a">>
          [] n = "libslang.so" -> <<"l", "i", "b", "s", "l", "a", "n", "g", ".", "s", "o">>]

\* Code points of the characters that occur in directory names under ndk/.
CodePoint ==
    [c \in {".", "0", "1", "2", "5", "9"} |->
        CASE c = "." -> 46
          [] c = "0" -> 48
          [] c = "1" -> 49
          [] c = "2" -> 50
          [] c = "5" -> 53
          [] c = "9" -> 57]

\* str.__lt__: s < t, character by character, a proper prefix being smaller.
RECURSIVE StrLess(_, _)
StrLess(s, t) ==
    IF t = <<>> THEN FALSE
    ELSE IF s = <<>> THEN TRUE
    ELSE IF CodePoint[Head(s)] # CodePoint[Head(t)]
         THEN CodePoint[Head(s)] < CodePoint[Head(t)]
         ELSE StrLess(Tail(s), Tail(t))

\* "m in s"
Contains(s, m) ==
    \E i \in 1..(Len(s) - Len(m) + 1) : SubSeq(s, i, i + Len(m) - 1) = m

\* s.endswith(e)
EndsWith(s, e) ==
    /\ Len(e) <= Len(s)
    /\ SubSeq(s, Len(s) - Len(e) + 1, Len(s)) = e

\* ------------------------------------------------------------------ paths

\* Path(s): empty pieces and "." pieces of the string vanish.
Path(s) == SelectSeq(s, LAMBDA c : c # "" /\ c # ".")

\* p / name
Join(p, rel) == p \o rel

\* find_ndk's "return None"
None == <<"/None/">>

\* os.environ.get(var) is truthy: the variable is set and not empty.
EnvSet(var) == var \in DOMAIN env /\ env[var] # <<>>

NdkVars == <<"ANDROID_NDK_HOME", "ANDROID_NDK_ROOT", "NDK_HOME">>
SdkVars == <<"ANDROID_HOME", "ANDROID_SDK_ROOT">>

\* The layout of a directory that does not exist.
NoDir == [exists |-> FALSE, ndk_exists |-> FALSE, ndk |-> {}, bundle |-> FALSE]

\* Path.exists() / os.path.exists() on the paths the locator looks at.
SdkRootPaths == DOMAIN sdk_fs
Layout(p) == IF p \in SdkRootPaths THEN sdk_fs[p] ELSE NoDir
Exists(p) == p \in ndk_fs \/ Layout(p).exists

\* Lines 27-38: the list of SDK roots.
RECURSIVE EnvRoots(_)
EnvRoots(i) ==
    IF i > Len(SdkVars) THEN <<>>
    ELSE (IF EnvSet(SdkVars[i]) THEN <<Path(env[SdkVars[i]])>> ELSE <<>>)
         \o EnvRoots(i + 1)

Home == <<"home", "user">>

DefaultRoots ==
    IF system = "Windows"
    THEN << Join(Path(IF "LOCALAPPDATA" \in DOMAIN env THEN env["LOCALAPPDATA"] ELSE <<>>),
                 <<"Android", "Sdk">>),
            <<"C:", "Program Files (x86)", "Android", "android-sdk">> >>
    ELSE << Join(Home, <<"Android", "Sdk">>),
            Join(Home, <<"Library", "Android", "sdk">>) >>

sdk_roots == EnvRoots(1) \o DefaultRoots

\* Path.__lt__ on two children of one directory: their names decide.
PathLess(root, a, b) == StrLess(Spell[a], Spell[b])

\* Mutant: the sort without reverse=True.
RECURSIVE SortedReverse_Ascending(_, _)
SortedReverse_Ascending(root, names) ==
    IF names = {} THEN <<>>
    ELSE LET low == CHOOSE a \in names : \A b \in names \ {a} : PathLess(root, a, b)
         IN  <<low>> \o SortedReverse_Ascending(root, names \ {low})

\* sorted(..., reverse=True) of the directories under ndk_dir.
RECURSIVE SortedReverse(_, _)
SortedReverse(root, names) ==
    IF names = {} THEN <<>>
    ELSE LET top == CHOOSE a \in names : \A b \in names \ {a} : PathLess(root, b, a)
         IN  <<top>> \o SortedReverse(root, names \ {top})

\* [d for d in ndk_dir.iterdir() if d.is_dir()]
SubDirs(root) == {e.name : e \in {x \in Layout(root).ndk : x.is_dir}}

\* Mutant: the bundle is looked for only where there is no ndk directory.
RECURSIVE ScanRoots_NoFallback(_, _)
ScanRoots_NoFallback(roots, i) ==
    IF i > Len(roots) THEN None
    ELSE LET root == roots[i]
             versions == SortedReverse(root, SubDirs(root))
         IN  IF ~Exists(root) THEN ScanRoots_NoFallback(roots, i + 1)
             ELSE IF Layout(root).ndk_exists /\ versions # <<>>
                  THEN Join(root, <<"ndk", versions[1]>>)
             ELSE IF ~Layout(root).ndk_exists /\ Layout(root).bundle
                  THEN Join(root, <<"ndk-bundle">>)
             ELSE ScanRoots_NoFallback(roots, i + 1)

\* Lines 40-56: the loop over the SDK roots.
RECURSIVE ScanRoots(_, _)
ScanRoots(roots, i) ==
    IF i > Len(roots) THEN None
    ELSE LET root == roots[i]
             versions == SortedReverse(root, SubDirs(root))
         IN  IF ~Exists(root) THEN ScanRoots(roots, i + 1)
             ELSE IF Layout(root).ndk_exists /\ versions # <<>>
                  THEN Join(root, <<"ndk", versions[1]>>)
             ELSE IF Layout(root).bundle
                  THEN Join(root, <<"ndk-bundle">>)
             ELSE ScanRoots(roots, i + 1)

\* Mutant: a variable wins as soon as it is set, whether its path exists or not.
RECURSIVE ScanVars_NoExists(_)
ScanVars_NoExists(i) ==
    IF i > Len(NdkVars) THEN ScanRoots(sdk_roots, 1)
    ELSE IF EnvSet(NdkVars[i])
         THEN Path(env[NdkVars[i]])
         ELSE ScanVars_NoExists(i + 1)

\* Lines 22-25: the loop over the NDK variables.
RECURSIVE ScanVars(_)
ScanVars(i) ==
    IF i > Len(NdkVars) THEN ScanRoots(sdk_roots, 1)
    ELSE IF EnvSet(NdkVars[i]) /\ Exists(Path(env[NdkVars[i]]))
         THEN Path(env[NdkVars[i]])
         ELSE ScanVars(i + 1)

find_ndk == ScanVars(1)

\* --------------------------------------------------------------- pipeline

\* exit_code while the process runs, and once it has ended with status c.
Running == <<>>
Exited(c) == <<c>>

\* The exit statuses an external command is given in the model.
ExitStatuses == {0, 1, 128}

\* Lines 190-195, relative to android_build_dir.
search_paths == <<"lib", "bin", "Release/lib", "Release/bin">>

\* Line 189.
lib_extensions == <<".so", ".a">>

\* Mutant: the marker must start the name.
IsArtifact_Prefix(name) ==
    /\ Len(Spell[name]) >= Len(Spell["lib"])
    /\ SubSeq(Spell[name], 1, Len(Spell["lib"])) = Spell["lib"]
    /\ \E k \in 1..Len(lib_extensions) : EndsWith(Spell[name], Spell[lib_extensions[k]])

\* Lines 202-204: the filter on an entry's name.
IsArtifact(name) ==
    /\ Contains(Spell[name], Spell["lib"])
    /\ \E k \in 1..Len(lib_extensions) : EndsWith(Spell[name], Spell[lib_extensions[k]])

\* Line 205 for every match of one directory: shutil.copy overwrites.
CopyInto(d, names, from) ==
    [n \in (DOMAIN d) \cup names |-> IF n \in names THEN from ELSE d[n]]

\* Lines 198-207: the loop over search_paths; d is DIST_DIR's files so far.
RECURSIVE CollectFrom(_, _)
CollectFrom(i, d) ==
    IF i > Len(search_paths) THEN d
    ELSE LET spath == search_paths[i]
         IN  IF ~out[spath].exists THEN CollectFrom(i + 1, d)
             ELSE CollectFrom(i + 1,
                      CopyInto(d, {n \in out[spath].entries : IsArtifact(n)}, spath))

\* Lines 197-207: found is set once any entry has been copied.
FoundAny ==
    \E i \in 1..Len(search_paths) :
        /\ out[search_paths[i]].exists
        /\ \E n \in out[search_paths[i]].entries : IsArtifact(n)

\* Mutant: subprocess.run without check=True.
run_cmd_Unchecked(stage, status, next) ==
    /\ invoked' = Append(invoked, [stage |-> stage, status |-> status])
    /\ pc' = next
    /\ UNCHANGED exit_code

\* Lines 59-66: run_cmd(cmd); subprocess.run(check=True) raises on a
\* non-zero status, nothing catches it and the interpreter exits with 1.
run_cmd(stage, status, next) ==
    /\ invoked' = Append(invoked, [stage |-> stage, status |-> status])
    /\ IF status # 0
       THEN pc' = "exited" /\ exit_code' = Exited(1)
       ELSE pc' = next /\ UNCHANGED exit_code

environment == <<env, system, argv_help, sdk_fs, ndk_fs, toolchain_file_exists>>
dist_dir == <<dist_exists, dist, dist_include>>
build_dirs == <<build_base_exists, slang_dir_exists, host_build_dir_exists,
                android_build_dir_exists>>

\* Lines 221-225: the help flag is looked at before main.
MainGuard ==
    /\ pc = "start"
    /\ IF argv_help
       THEN pc' = "exited" /\ exit_code' = Exited(0) /\ message' = "usage"
       ELSE pc' = "find_ndk" /\ UNCHANGED <<exit_code, message>>
    /\ UNCHANGED <<environment, ndk_path, invoked, build_dirs, out, dist_dir, found>>

\* Mutant: main goes on without looking at what find_ndk returned.
FindNdk_NoCheck ==
    /\ pc = "find_ndk"
    /\ ndk_path' = find_ndk
    /\ pc' = "prepare"
    /\ UNCHANGED <<exit_code, message>>
    /\ UNCHANGED <<environment, invoked, build_dirs, out, dist_dir, found>>

\* Lines 79-84.
FindNdk ==
    /\ pc = "find_ndk"
    /\ ndk_path' = find_ndk
    /\ IF ndk_path' = None
       THEN pc' = "exited" /\ exit_code' = Exited(1) /\ message' = "ndk_error"
       ELSE pc' = "prepare" /\ UNCHANGED <<exit_code, message>>
    /\ UNCHANGED <<environment, invoked, build_dirs, out, dist_dir, found>>

\* Mutant: DIST_DIR is created when missing and otherwise kept.
Prepare_KeepDist ==
    /\ pc = "prepare"
    /\ build_base_exists' = TRUE
    /\ dist_exists' = TRUE
    /\ pc' = "clone"
    /\ UNCHANGED <<environment, ndk_path, invoked, exit_code, slang_dir_exists,
                   host_build_dir_exists, android_build_dir_exists, out, found, message,
                   dist, dist_include>>

\* Lines 90-99: BUILD_BASE is created if missing, DIST_DIR is removed and created.
Prepare ==
    /\ pc = "prepare"
    /\ build_base_exists' = TRUE
    /\ dist_exists' = TRUE
    /\ dist' = << >>
    /\ dist_include' = FALSE
    /\ pc' = "clone"
    /\ UNCHANGED <<environment, ndk_path, invoked, exit_code, slang_dir_exists,
                   host_build_dir_exists, android_build_dir_exists, out, found, message>>

\* Mutant: the clone is run whether slang_dir exists or not.
Clone_Always ==
    /\ pc = "clone"
    /\ \E status \in ExitStatuses :
          /\ run_cmd("clone", status, "host_configure")
          /\ slang_dir_exists' = (slang_dir_exists \/ status = 0)
    /\ UNCHANGED <<environment, ndk_path, build_base_exists, host_build_dir_exists,
                   android_build_dir_exists, out, dist_dir, found, message>>

\* Lines 101-116: git clone creates slang_dir when it succeeds.
Clone ==
    /\ pc = "clone"
    /\ IF ~slang_dir_exists
       THEN \E status \in ExitStatuses :
                /\ run_cmd("clone", status, "host_configure")
                /\ slang_dir_exists' = (status = 0)
       ELSE /\ pc' = "host_configure"
            /\ UNCHANGED <<invoked, exit_code, slang_dir_exists>>
    /\ UNCHANGED <<environment, ndk_path, build_base_exists, host_build_dir_exists,
                   android_build_dir_exists, out, dist_dir, found, message>>

\* Lines 126-142.
HostConfigure ==
    /\ pc = "host_configure"
    /\ host_build_dir_exists' = TRUE
    /\ \E status \in ExitStatuses : run_cmd("host_configure", status, "host_build")
    /\ UNCHANGED <<environment, ndk_path, build_base_exists, slang_dir_exists,
                   android_build_dir_exists, out, dist_dir, found, message>>

\* Line 143.
HostBuild ==
    /\ pc = "host_build"
    /\ \E status \in ExitStatuses : run_cmd("host_build", status, "host_install")
    /\ UNCHANGED <<environment, ndk_path, build_dirs, out, dist_dir, found, message>>

\* Lines 145-156.
HostInstall ==
    /\ pc = "host_install"
    /\ \E status \in ExitStatuses : run_cmd("host_install", status, "toolchain")
    /\ UNCHANGED <<environment, ndk_path, build_dirs, out, dist_dir, found, message>>

\* Mutant: the toolchain file is not looked for.
Toolchain_NoCheck ==
    /\ pc = "toolchain"
    /\ android_build_dir_exists' = TRUE
    /\ pc' = "android_configure"
    /\ UNCHANGED <<exit_code, message>>
    /\ UNCHANGED <<environment, ndk_path, invoked, build_base_exists, slang_dir_exists,
                   host_build_dir_exists, out, dist_dir, found>>

\* Lines 158-166.
Toolchain ==
    /\ pc = "toolchain"
    /\ android_build_dir_exists' = TRUE
    /\ IF ~toolchain_file_exists
       THEN pc' = "exited" /\ exit_code' = Exited(1) /\ message' = "toolchain_error"
       ELSE pc' = "android_configure" /\ UNCHANGED <<exit_code, message>>
    /\ UNCHANGED <<environment, ndk_path, invoked, build_base_exists, slang_dir_exists,
                   host_build_dir_exists, out, dist_dir, found>>

\* Lines 168-183.
AndroidConfigure ==
    /\ pc = "android_configure"
    /\ \E status \in ExitStatuses : run_cmd("android_configure", status, "android_build")
    /\ UNCHANGED <<environment, ndk_path, build_dirs, out, dist_dir, found, message>>

\* What the target build may leave in one output directory.
NoOutput == [exists |-> FALSE, entries |-> {}]
Outputs ==
    {NoOutput} \cup
    {[exists |-> TRUE, entries |-> e] :
        e \in {{}, {"libfoo.so", "other.txt", "libbar.a"},
               {"other.txt", "foo.so", "libfoo.txt"}, {"libslang.so", "glib.a"}}}

\* Line 184: the build fills the output directories in whatever layout the
\* build system uses.
AndroidBuild ==
    /\ pc = "android_build"
    /\ \E status \in ExitStatuses : run_cmd("android_build", status, "collect")
    /\ out' \in [{search_paths[i] : i \in 1..Len(search_paths)} -> Outputs]
    /\ UNCHANGED <<environment, ndk_path, build_dirs, dist_dir, found, message>>

\* Mutant: a run that finds no artifact ends with sys.exit(1).
Collect_HardFail ==
    /\ pc = "collect"
    /\ dist' = CollectFrom(1, dist)
    /\ found' = FoundAny
    /\ dist_include' = TRUE
    /\ message' = IF found' THEN "success" ELSE "failed"
    /\ pc' = "exited"
    /\ exit_code' = IF found' THEN Exited(0) ELSE Exited(1)
    /\ UNCHANGED <<environment, ndk_path, invoked, build_dirs, out, dist_exists>>

\* Lines 186-218: artifacts, the include tree, the closing message; main
\* returns and the interpreter exits with 0.
Collect ==
    /\ pc = "collect"
    /\ dist' = CollectFrom(1, dist)
    /\ found' = FoundAny
    /\ dist_include' = TRUE
    /\ message' = IF found' THEN "success" ELSE "failed"
    /\ pc' = "exited"
    /\ exit_code' = Exited(0)
    /\ UNCHANGED <<environment, ndk_path, invoked, build_dirs, out, dist_exists>>

Next ==
    \/ MainGuard
    \/ FindNdk
    \/ Prepare
    \/ Clone
    \/ HostConfigure
    \/ HostBuild
    \/ HostInstall
    \/ Toolchain
    \/ AndroidConfigure
    \/ AndroidBuild
    \/ Collect

\* ----------------------------------------------------------- initial states

Sdk1 == <<"opt", "sdk1">>
Sdk2 == <<"opt", "sdk2">>
NdkA == <<"opt", "ndkA">>
NdkB == <<"opt", "ndkB">>
Gone == <<"opt", "gone">>
LocalAppData == <<"C:", "Users", "user", "AppData", "Local">>

Dir(name) == [name |-> name, is_dir |-> TRUE]
File(name) == [name |-> name, is_dir |-> FALSE]

\* What an SDK root may look like.
Layouts ==
    { NoDir,
      [exists |-> TRUE, ndk_exists |-> FALSE, ndk |-> {}, bundle |-> FALSE],
      [exists |-> TRUE, ndk_exists |-> FALSE, ndk |-> {}, bundle |-> TRUE],
      [exists |-> TRUE, ndk_exists |-> TRUE, ndk |-> {}, bundle |-> TRUE],
      [exists |-> TRUE, ndk_exists |-> TRUE, ndk |-> {File("25.1")}, bundle |-> TRUE],
      [exists |-> TRUE, ndk_exists |-> TRUE,
       ndk |-> {Dir("9"), Dir("10"), File("25.1")}, bundle |-> TRUE],
      [exists |-> TRUE, ndk_exists |-> TRUE, ndk |-> {Dir("10"), Dir("25")},
       bundle |-> FALSE] }

\* The values given to an NDK variable: a path that exists, a second one
\* written with a trailing separator, a path that does not exist, "".
NdkValues == {NdkA, NdkB \o <<"">>, Gone, <<>>}

\* An environment: three NDK variables, two SDK variables, LOCALAPPDATA.
MakeEnv(n1, n2, n3, s1, s2, la) ==
    LET pairs == { <<"ANDROID_NDK_HOME", n1>>, <<"ANDROID_NDK_ROOT", n2>>,
                   <<"NDK_HOME", n3>>, <<"ANDROID_HOME", s1>>,
                   <<"ANDROID_SDK_ROOT", s2>>, <<"LOCALAPPDATA", la>> }
        set == {q \in pairs : q[2] # <<>>}
    IN  [v \in {q[1] : q \in set} |->
            (CHOOSE q \in set : q[1] = v)[2][1]]

\* A value is handed over as <<>> (the variable is unset) or <<string>>.
Maybe(values) == {<<>>} \cup {<<x>> : x \in values}

\* The SDK roots of a platform, with the layouts l1..l4 of the two roots
\* the SDK variables may name and of the two default roots.
MakeSdkFs(sys, la, l1, l2, l3, l4) ==
    LET d1 == IF sys = "Windows"
              THEN Join(Path(IF la = <<>> THEN <<>> ELSE la[1]), <<"Android", "Sdk">>)
              ELSE Join(Home, <<"Android", "Sdk">>)
        d2 == IF sys = "Windows"
              THEN <<"C:", "Program Files (x86)", "Android", "android-sdk">>
              ELSE Join(Home, <<"Library", "Android", "sdk">>)
    IN  [p \in {Sdk1, Sdk2, d1, d2} |->
            IF p = Sdk1 THEN l1 ELSE IF p = Sdk2 THEN l2 ELSE IF p = d1 THEN l3 ELSE l4]

\* The state of a process that has not started yet.
NotStarted ==
    /\ ndk_path = None
    /\ invoked = <<>>
    /\ exit_code = Running
    /\ found = FALSE
    /\ message = "none"

\* What earlier runs may have left: the build tree, the distribution directory.
Leftovers ==
    /\ \E b \in {<<FALSE, FALSE, FALSE, FALSE>>, <<TRUE, FALSE, FALSE, FALSE>>,
                 <<TRUE, TRUE, FALSE, FALSE>>, <<TRUE, TRUE, TRUE, FALSE>>,
                 <<TRUE, TRUE, TRUE, TRUE>>, <<TRUE, FALSE, TRUE, TRUE>>} :
          /\ build_base_exists = b[1]
          /\ slang_dir_exists = b[2]
          /\ host_build_dir_exists = b[3]
          /\ android_build_dir_exists = b[4]
    /\ out = [sp \in {search_paths[i] : i \in 1..Len(search_paths)} |-> NoOutput]
    /\ \E d \in {<<FALSE, {}, FALSE>>, <<TRUE, {}, FALSE>>,
                 <<TRUE, {"libfoo.so", "libold.so"}, TRUE>>} :
          /\ dist_exists = d[1]
          /\ dist = [n \in d[2] |-> "previous run"]
          /\ dist_include = d[3]

\* The program is started in some environment, on some platform, with or
\* without the help flag, on top of what earlier runs left.
Init ==
    /\ pc = "start"
    /\ argv_help \in BOOLEAN
    /\ toolchain_file_exists \in BOOLEAN
    /\ system \in {"Linux", "Windows"}
    /\ ndk_fs = {NdkA, NdkB}
    /\ \E n1 \in Maybe({NdkA, Gone}), s1 \in Maybe({Sdk1}) :
          env = MakeEnv(n1, <<>>, <<>>, s1, <<>>, <<>>)
    /\ \E l1 \in Layouts : sdk_fs = MakeSdkFs(system, <<>>, l1, NoDir, NoDir, NoDir)
    /\ NotStarted
    /\ Leftovers

Spec == Init /\ [][Next]_vars

\* find_ndk alone, over a wider range of environments and SDK roots: every
\* assignment of the NDK variables over one SDK root, and every layout of
\* the four SDK roots when no NDK variable names an existing path.
InitLocator ==
    /\ pc = "find_ndk"
    /\ argv_help = FALSE
    /\ toolchain_file_exists = TRUE
    /\ system \in {"Linux", "Windows"}
    /\ ndk_fs = {NdkA, NdkB}
    /\ \/ /\ \E n1, n2, n3 \in Maybe(NdkValues) :
                env = MakeEnv(n1, n2, n3, <<Sdk1>>, <<>>, <<>>)
          /\ \E l1 \in Layouts : sdk_fs = MakeSdkFs(system, <<>>, l1, NoDir, NoDir, NoDir)
       \/ \E n \in Maybe({Gone, <<>>}), s1 \in Maybe({Sdk1, <<>>}),
             s2 \in Maybe({Sdk2 \o <<"">>, Sdk1}),
             la \in (IF system = "Windows" THEN Maybe({LocalAppData}) ELSE {<<>>}) :
            /\ env = MakeEnv(n, n, n, s1, s2, la)
            /\ \E l1, l2, l3, l4 \in Layouts :
                  sdk_fs = MakeSdkFs(system, la, l1, l2, l3, l4)
    /\ NotStarted
    /\ build_base_exists = FALSE
    /\ slang_dir_exists = FALSE
    /\ host_build_dir_exists = FALSE
    /\ android_build_dir_exists = FALSE
    /\ out = [sp \in {search_paths[i] : i \in 1..Len(search_paths)} |-> NoOutput]
    /\ dist_exists = FALSE
    /\ dist = << >>
    /\ dist_include = FALSE

NextLocator == FindNdk

SpecLocator == InitLocator /\ [][NextLocator]_vars

\* ------------------------------------------------------ locator properties

\* The variable is set, not empty, and the path it names exists.
NamesExisting(var) ==
    /\ var \in DOMAIN env
    /\ env[var] # <<>>
    /\ \/ Path(env[var]) \in ndk_fs
       \/ Path(env[var]) \in DOMAIN sdk_fs /\ sdk_fs[Path(env[var])].exists

NoNdkVar == \A i \in 1..Len(NdkVars) : ~NamesExisting(NdkVars[i])

\* The root exists and its ndk directory has at least one subdirectory.
HasVersions(root) ==
    /\ root \in DOMAIN sdk_fs
    /\ sdk_fs[root].exists
    /\ sdk_fs[root].ndk_exists
    /\ \E e \in sdk_fs[root].ndk : e.is_dir

\* The root exists and has an ndk-bundle directory.
HasBundle(root) ==
    /\ root \in DOMAIN sdk_fs
    /\ sdk_fs[root].exists
    /\ sdk_fs[root].bundle

\* The subdirectory of root/ndk whose name is lexicographically greatest.
Greatest(root) ==
    LET dirs == {e.name : e \in {x \in sdk_fs[root].ndk : x.is_dir}}
    IN  CHOOSE m \in dirs : \A o \in dirs \ {m} : StrLess(Spell[o], Spell[m])

Located == pc # "find_ndk" /\ pc # "start"

\* C2: when at least one of ANDROID_NDK_HOME, ANDROID_NDK_ROOT, NDK_HOME is
\* set to a path that exists, find_ndk returns the path of the first such
\* variable in that order, whatever the later variables and the SDK roots
\* hold; unset, empty and non-existing values are passed over.
C2_EnvPriority ==
    Located =>
        \A i \in 1..Len(NdkVars) :
            ( /\ NamesExisting(NdkVars[i])
              /\ \A j \in 1..(i - 1) : ~NamesExisting(NdkVars[j]) )
            => ndk_path = Path(env[NdkVars[i]])

\* ANDROID_NDK_HOME names a missing path, ANDROID_NDK_ROOT and NDK_HOME name
\* two different existing ones, an SDK root has versions: the second wins.
C2_Witness ==
    /\ Located
    /\ "ANDROID_NDK_HOME" \in DOMAIN env /\ env["ANDROID_NDK_HOME"] = Gone
    /\ "ANDROID_NDK_ROOT" \in DOMAIN env /\ env["ANDROID_NDK_ROOT"] = NdkB \o <<"">>
    /\ "NDK_HOME" \in DOMAIN env /\ env["NDK_HOME"] = NdkA
    /\ HasVersions(Sdk1)
    /\ ndk_path = NdkB

\* C3 as stated: when no NDK variable matches and some SDK root has a
\* versioned layout, find_ndk returns the greatest subdirectory of a
\* versioned root, whatever the other roots hold.
C3_AnyVersionedRoot ==
    ( /\ Located
      /\ NoNdkVar
      /\ \E i \in 1..Len(sdk_roots) : HasVersions(sdk_roots[i]) )
    => \E i \in 1..Len(sdk_roots) :
          /\ HasVersions(sdk_roots[i])
          /\ ndk_path = Join(sdk_roots[i], <<"ndk", Greatest(sdk_roots[i])>>)

\* C3 amended: when no NDK variable matches and the first SDK root in
\* priority order that has a versioned subdirectory or an ndk-bundle
\* directory has a versioned subdirectory, find_ndk returns the
\* lexicographically greatest subdirectory of that root's ndk directory.
C3_FirstRootVersioned ==
    (Located /\ NoNdkVar) =>
        \A i \in 1..Len(sdk_roots) :
            ( /\ HasVersions(sdk_roots[i])
              /\ \A j \in 1..(i - 1) :
                    ~HasVersions(sdk_roots[j]) /\ ~HasBundle(sdk_roots[j]) )
            => ndk_path = Join(sdk_roots[i], <<"ndk", Greatest(sdk_roots[i])>>)

\* No NDK variable matches, the first root exists but holds nothing, the
\* second holds 9, 10 and a plain file 25.1, a later root holds 10 and 25:
\* the result is the second root's 9.
C3_Witness ==
    /\ Located
    /\ NoNdkVar
    /\ Len(sdk_roots) = 4
    /\ sdk_roots[1] # sdk_roots[2]
    /\ sdk_fs[sdk_roots[1]].exists
    /\ ~HasVersions(sdk_roots[1]) /\ ~HasBundle(sdk_roots[1])
    /\ sdk_fs[sdk_roots[2]].ndk = {Dir("9"), Dir("10"), File("25.1")}
    /\ sdk_fs[sdk_roots[3]].ndk = {Dir("10"), Dir("25")}
    /\ ndk_path = Join(sdk_roots[2], <<"ndk", "9">>)

\* C4: when no NDK variable names an existing path and no SDK root has a
\* subdirectory under ndk, find_ndk returns the ndk-bundle directory of the
\* first root that has one; an ndk directory that is empty or holds only
\* plain files does not stand in the way.
C4_LegacyBundle ==
    ( /\ Located
      /\ NoNdkVar
      /\ \A i \in 1..Len(sdk_roots) : ~HasVersions(sdk_roots[i]) )
    => \A i \in 1..Len(sdk_roots) :
          ( /\ HasBundle(sdk_roots[i])
            /\ \A j \in 1..(i - 1) : ~HasBundle(sdk_roots[j]) )
          => ndk_path = Join(sdk_roots[i], <<"ndk-bundle">>)

\* The first root exists without a bundle, the second has an ndk directory
\* with only a plain file in it and a bundle, the third a bundle too: the
\* result is the second root's bundle.
C4_Witness ==
    /\ Located
    /\ NoNdkVar
    /\ \A i \in 1..Len(sdk_roots) : ~HasVersions(sdk_roots[i])
    /\ Len(sdk_roots) = 4
    /\ sdk_fs[sdk_roots[1]].exists /\ ~HasBundle(sdk_roots[1])
    /\ sdk_fs[sdk_roots[2]].ndk = {File("25.1")}
    /\ HasBundle(sdk_roots[2]) /\ HasBundle(sdk_roots[3])
    /\ sdk_roots[2] # sdk_roots[3]
    /\ ndk_path = Join(sdk_roots[2], <<"ndk-bundle">>)

\* ----------------------------------------------------- pipeline properties

Ran(stage) == \E i \in 1..Len(invoked) : invoked[i].stage = stage

NonZeroExit == exit_code # Running /\ exit_code # Exited(0)

\* Nothing of lines 186-218 has happened since DIST_DIR was recreated.
NotCollected ==
    /\ dist = << >>
    /\ ~dist_include
    /\ ~found
    /\ message \notin {"success", "failed"}

\* The names of the model that contain "lib" and end in ".so" or ".a".
ArtifactNames == {"libfoo.so", "libbar.a", "glib.a", "libslang.so"}

\* The entries of the existing output directories that are artifacts.
ArtifactsBuilt ==
    {n \in ArtifactNames :
        \E sp \in DOMAIN out : out[sp].exists /\ n \in out[sp].entries}

\* C1: a command that exits non-zero is the last command of the run: no
\* later stage is invoked, nothing is collected, the process has exited
\* with a non-zero code.
C1_FailFast ==
    \A i \in 1..Len(invoked) :
        invoked[i].status # 0 =>
            /\ i = Len(invoked)
            /\ pc = "exited"
            /\ NonZeroExit
            /\ NotCollected

\* The target build, the sixth command, fails after leaving artifacts.
C1_Witness ==
    /\ Len(invoked) = 6
    /\ invoked[1].stage = "clone"
    /\ invoked[6].stage = "android_build" /\ invoked[6].status = 128
    /\ ArtifactsBuilt # {}
    /\ pc = "exited"

\* No NDK variable names an existing path and no SDK root yields anything.
NothingToFind ==
    /\ NoNdkVar
    /\ \A i \in 1..Len(sdk_roots) : ~HasVersions(sdk_roots[i]) /\ ~HasBundle(sdk_roots[i])

\* C5: when nothing is to be found, find_ndk returns None and main exits
\* with a non-zero code there and then: no command has been invoked, the
\* build directories and the distribution directory are as they were, and
\* nothing happens after the exit.
C5_DiscoveryFailure ==
    /\ [][ (pc = "find_ndk" /\ NothingToFind) =>
             /\ ndk_path' = None
             /\ pc' = "exited"
             /\ exit_code' # Running /\ exit_code' # Exited(0)
             /\ invoked = <<>> /\ invoked' = <<>>
             /\ (UNCHANGED <<build_dirs, dist_dir>>) ]_vars
    /\ [][ pc # "exited" ]_vars

\* ANDROID_NDK_HOME names a missing path, the SDK root exists without an
\* NDK, a previous run's distribution is still there, no build directory.
C5_Witness ==
    /\ pc = "exited"
    /\ message = "ndk_error"
    /\ ndk_path = None
    /\ "ANDROID_NDK_HOME" \in DOMAIN env
    /\ "ANDROID_HOME" \in DOMAIN env /\ sdk_fs[Sdk1].exists
    /\ ~build_base_exists
    /\ DOMAIN dist # {}
    /\ invoked = <<>>

\* C6: with slang_dir in place the clone is never invoked and the step after
\* the check is the host configure; without it the clone is the first
\* command, invoked once, and the host configure follows only its success.
C6_FetchIdempotence ==
    /\ [][ (pc = "clone" /\ slang_dir_exists) =>
             (invoked' = invoked /\ pc' = "host_configure") ]_vars
    /\ [][ slang_dir_exists =>
             \A i \in 1..Len(invoked') :
                 i > Len(invoked) => invoked'[i].stage # "clone" ]_vars
    /\ [][ (pc = "clone" /\ ~slang_dir_exists) =>
             (Len(invoked') = 1 /\ invoked'[1].stage = "clone") ]_vars
    /\ [][ Len(invoked') >= Len(invoked)
           /\ SubSeq(invoked', 1, Len(invoked)) = invoked ]_vars
    /\ [][ (ndk_path # None /\ pc = "prepare") => pc' = "clone" ]_vars
    /\ [](\A i \in 1..Len(invoked) :
            /\ invoked[i].stage = "clone" => i = 1
            /\ invoked[i].stage = "host_configure" =>
                  \/ i = 1
                  \/ i = 2 /\ invoked[1] = [stage |-> "clone", status |-> 0])

\* A re-run: slang_dir was there, the host configure is the first command.
C6_Witness ==
    /\ pc = "host_build"
    /\ slang_dir_exists
    /\ Len(invoked) = 1
    /\ invoked[1].stage = "host_configure"

\* C7: after the collection DIST_DIR holds exactly the artifacts among the
\* entries of the existing output directories, each under its own name
\* and taken from a directory that has it.
C7_ArtifactSelection ==
    (pc = "exited" /\ message \in {"success", "failed"}) =>
        /\ DOMAIN dist = ArtifactsBuilt
        /\ \A n \in DOMAIN dist :
              /\ dist[n] \in DOMAIN out
              /\ out[dist[n]].exists
              /\ n \in out[dist[n]].entries

\* Only bin exists, with libfoo.so, other.txt and libbar.a.
C7_Witness ==
    /\ pc = "exited"
    /\ message = "success"
    /\ \A sp \in DOMAIN out : out[sp].exists <=> sp = "bin"
    /\ out["bin"].entries = {"libfoo.so", "other.txt", "libbar.a"}
    /\ DOMAIN dist = {"libfoo.so", "libbar.a"}

\* DIST_DIR exists and nothing in it is older than this run.
Fresh == dist_exists /\ \A n \in DOMAIN dist : dist[n] # "previous run"

\* C8 as stated, already for the runs that get past the help flag: whichever
\* way the run goes, once it has invoked a command or has ended, DIST_DIR has
\* been recreated and holds nothing older.
C8_EveryRun == (~argv_help /\ (pc = "exited" \/ invoked # <<>>)) => Fresh

\* C8 amended: in a run that locates the NDK, DIST_DIR is removed and created
\* empty right after the discovery and before any command is invoked, and
\* nothing older survives the run; a run that ends at the help flag or
\* because no NDK is found leaves DIST_DIR as it was.
C8_FreshOnceLocated ==
    /\ []((ndk_path # None /\ pc # "prepare") => Fresh)
    /\ [](invoked # <<>> => ndk_path # None)
    /\ [][ pc = "prepare" =>
             /\ dist_exists' /\ dist' = << >> /\ ~dist_include'
             /\ invoked = <<>> /\ invoked' = <<>> ]_vars
    /\ [][ (pc = "start" \/ pc = "find_ndk") => (UNCHANGED dist_dir) ]_vars

\* The NDK is located, DIST_DIR is empty, no command has been invoked yet.
C8_Witness ==
    /\ pc = "clone"
    /\ ndk_path # None
    /\ invoked = <<>>
    /\ dist_exists /\ dist = << >> /\ ~dist_include

\* C9: a run whose commands all exit zero and that finds no artifact still
\* copies the include tree, prints the failure message and ends with exit
\* code zero; the success message is printed exactly when something was
\* copied.
C9_SoftFailure ==
    /\ ( /\ pc = "exited"
         /\ Ran("android_build")
         /\ \A i \in 1..Len(invoked) : invoked[i].status = 0
         /\ toolchain_file_exists
         /\ ArtifactsBuilt = {} )
       => (dist_include /\ message = "failed" /\ exit_code = Exited(0))
    /\ message = "success" <=>
          (pc = "exited" /\ \E n \in DOMAIN dist : dist[n] # "previous run")

\* An output directory exists, nothing in it passes the filter.
C9_Witness ==
    /\ pc = "exited"
    /\ message = "failed"
    /\ exit_code = Exited(0)
    /\ out["lib"].exists /\ out["lib"].entries = {"other.txt", "foo.so", "libfoo.txt"}
    /\ dist = << >>
    /\ dist_include

\* The fetch, unless skipped, and the three host stages were invoked in
\* order and exited zero.
HostDone ==
    \E k \in {0, 1} :
        /\ Len(invoked) >= k + 3
        /\ k = 1 => invoked[1] = [stage |-> "clone", status |-> 0]
        /\ invoked[k + 1] = [stage |-> "host_configure", status |-> 0]
        /\ invoked[k + 2] = [stage |-> "host_build", status |-> 0]
        /\ invoked[k + 3] = [stage |-> "host_install", status |-> 0]

\* C10: without the toolchain file the target configure and build are never
\* invoked, nothing is collected and the run ends with a non-zero code; the
\* check comes after the host stages have succeeded, and so does the target
\* configure.
C10_MissingToolchain ==
    /\ ~toolchain_file_exists =>
          /\ ~Ran("android_configure")
          /\ ~Ran("android_build")
          /\ message \notin {"success", "failed"}
          /\ ~found
    /\ (pc = "exited" /\ ndk_path # None /\ ~toolchain_file_exists) =>
          (NonZeroExit /\ dist = << >> /\ ~dist_include)
    /\ message = "toolchain_error" => (HostDone /\ Len(invoked) <= 4)
    /\ Ran("android_configure") => HostDone

\* The run has cloned, built and installed the host tools and stops there.
C10_Witness ==
    /\ pc = "exited"
    /\ message = "toolchain_error"
    /\ Len(invoked) = 4
    /\ android_build_dir_exists
    /\ exit_code = Exited(1)

====
